---- MODULE Spec2Model ----
(***************************************************************************)
(* Model of lutris/search.py: the search-query tokenizer, the component    *)
(* extractor, the predicate compiler and the GameSearch facade.            *)
(*                                                                         *)
(* A Python str is a sequence of one-character strings, "" is << >>.       *)
(***************************************************************************)
EXTENDS Integers, Sequences, FiniteSets, TLC

VARIABLES service, searches, result, calls

vars == <<service, searches, result, calls>>

(***************************************************************************)
(* Bounds of the model.                                                    *)
(***************************************************************************)
\* longest text drawn over Alphabet for the tokenizer specification
MaxLen == 4
\* longest text drawn over Alphabet for one search evaluated alone
MaxQueryLen == 3
\* search objects alive at once (the constructed one and with_predicate's)
MaxSearches == 3

(***************************************************************************)
(* Strings.                                                                *)
(***************************************************************************)
None == "None"

Quote == "\""

\* the characters the tokenizer tells apart, and one ordinary character
Alphabet == {"a", " ", "-", ":", Quote}

RECURSIVE Strings(_, _)
Strings(chars, n) ==
    IF n = 0 THEN {<< >>}
    ELSE LET shorter == Strings(chars, n - 1)
         IN  shorter \cup {Append(s, ch) : s \in {t \in shorter : Len(t) = n - 1}, ch \in chars}

RECURSIVE Concat(_)
Concat(seqs) == IF seqs = << >> THEN << >> ELSE Head(seqs) \o Concat(Tail(seqs))

\* str.isspace() of one character
IsSpaceChar(ch) == ch \in {" ", "\t"}

\* str.isspace(): false for "", true when every character is whitespace
isspace(s) == Len(s) > 0 /\ \A i \in 1..Len(s) : IsSpaceChar(s[i])

startswith(s, ch) == Len(s) > 0 /\ s[1] = ch

endswith(s, ch) == Len(s) > 0 /\ s[Len(s)] = ch

\* s[a:b] with Python's 0-based, end-exclusive bounds already resolved
Slice(s, a, b) == IF b <= a THEN << >> ELSE SubSeq(s, a + 1, b)

RECURSIVE lstrip(_)
lstrip(s) == IF Len(s) > 0 /\ IsSpaceChar(s[1]) THEN lstrip(Tail(s)) ELSE s

RECURSIVE rstrip(_)
rstrip(s) ==
    IF Len(s) > 0 /\ IsSpaceChar(s[Len(s)]) THEN rstrip(SubSeq(s, 1, Len(s) - 1)) ELSE s

\* str.strip()
strip(s) == rstrip(lstrip(s))

Upper == <<"A", "B", "F", "H", "I", "L", "M", "N", "P", "R", "W", "Y">>

Lower == <<"a", "b", "f", "h", "i", "l", "m", "n", "p", "r", "w", "y">>

\* str.casefold()
casefold(s) ==
    [i \in 1..Len(s) |->
        IF \E k \in 1..Len(Upper) : Upper[k] = s[i]
        THEN Lower[CHOOSE k \in 1..Len(Upper) : Upper[k] = s[i]]
        ELSE s[i]]

\* lutris.util.strings.strip_accents: "o'" stands for the letter o with an
\* acute accent, "e'" for e with an acute accent
strip_accents(s) ==
    [i \in 1..Len(s) |->
        CASE s[i] = "o'" -> "o"
          [] s[i] = "e'" -> "e"
          [] s[i] = "E'" -> "E"
          [] OTHER -> s[i]]

\* Python's `needle in hay` for str
IsSubstring(needle, hay) ==
    \E i \in 0..(Len(hay) - Len(needle)) :
        \A k \in 1..Len(needle) : hay[i + k] = needle[k]

(***************************************************************************)
(* tokenize_search                                                         *)
(***************************************************************************)
\* index of the closing quote at or after position j, 0 when there is none
RECURSIVE ClosingQuote(_, _)
ClosingQuote(text, j) ==
    IF j > Len(text) THEN 0
    ELSE IF text[j] = Quote THEN j
    ELSE ClosingQuote(text, j + 1)

\* the generator _tokenize: i is the iterator's position, buffer the buffer,
\* out the tokens yielded so far
RECURSIVE tokenize(_, _, _, _)
tokenize(text, i, buffer, out) ==
    IF i > Len(text)
    THEN Append(out, buffer)
    ELSE LET ch == text[i] IN
         IF IsSpaceChar(ch) # isspace(buffer)
         THEN tokenize(text, i + 1, <<ch>>, Append(out, buffer))
         ELSE IF ch = "-"
         THEN tokenize(text, i + 1, << >>, out \o <<buffer, <<ch>>>>)
         ELSE IF ch = ":"
         THEN tokenize(text, i + 1, << >>, Append(out, Append(buffer, ch)))
         ELSE IF ch = Quote
         THEN LET j == ClosingQuote(text, i + 1) IN
              IF j = 0
              THEN out \o <<buffer, SubSeq(text, i, Len(text))>>
              ELSE tokenize(text, j + 1, << >>, out \o <<buffer, SubSeq(text, i, j)>>)
         ELSE tokenize(text, i + 1, Append(buffer, ch), out)

\* tokenize_search whose filter also drops the tokens of one character
tokenize_search_longer_than_one(text) ==
    SelectSeq(tokenize(text, 1, << >>, << >>), LAMBDA t : Len(t) > 1)

tokenize_search(text) ==
    SelectSeq(tokenize(text, 1, << >>, << >>), LAMBDA t : Len(t) > 0)

(***************************************************************************)
(* Words of the query language and of the scenarios.                       *)
(***************************************************************************)
S_installed == <<"i", "n", "s", "t", "a", "l", "l", "e", "d">>

S_hidden == <<"h", "i", "d", "d", "e", "n">>

S_favorite == <<"f", "a", "v", "o", "r", "i", "t", "e">>

S_categorized == <<"c", "a", "t", "e", "g", "o", "r", "i", "z", "e", "d">>

S_category == <<"c", "a", "t", "e", "g", "o", "r", "y">>

S_runner == <<"r", "u", "n", "n", "e", "r">>

S_platform == <<"p", "l", "a", "t", "f", "o", "r", "m">>

S_true == <<"t", "r", "u", "e">>

S_yes == <<"y", "e", "s">>

S_false == <<"f", "a", "l", "s", "e">>

S_no == <<"n", "o">>

S_maybe == <<"m", "a", "y", "b", "e">>

S_dot_hidden == <<".", "h", "i", "d", "d", "e", "n">>

S_banana == <<"b", "a", "n", "a", "n", "a">>

S_wine == <<"w", "i", "n", "e">>

S_linux == <<"l", "i", "n", "u", "x">>

S_portal == <<"p", "o", "r", "t", "a", "l">>

Dash == <<"-">>

\* BaseSearch.flag_texts; None is the value of "maybe"
flag_texts ==
    (S_true :> "True") @@ (S_yes :> "True") @@ (S_false :> "False") @@ (S_no :> "False")
        @@ (S_maybe :> None)

\* GameSearch.tags
tags == {S_installed, S_hidden, S_favorite, S_categorized, S_category, S_runner, S_platform}

(***************************************************************************)
(* BaseSearch.get_components                                               *)
(***************************************************************************)
\* the drain loop of token_pairs: `while buffer: yield padded; del buffer[0]`
RECURSIVE token_pairs_drain(_, _)
token_pairs_drain(buffer, out) ==
    IF buffer = << >> THEN out
    ELSE token_pairs_drain(Tail(buffer),
             Append(out, buffer \o [k \in 1..(3 - Len(buffer)) |-> << >>]))

\* the for loop of token_pairs over the tokens, then the drain loop
RECURSIVE token_pairs_feed(_, _, _)
token_pairs_feed(toks, buffer, out) ==
    IF toks = << >> THEN token_pairs_drain(buffer, out)
    ELSE LET t == Head(toks) IN
         IF isspace(t) THEN token_pairs_feed(Tail(toks), buffer, out)
         ELSE IF Len(buffer) = 3
         THEN token_pairs_feed(Tail(toks), Append(Tail(buffer), t), Append(out, buffer))
         ELSE token_pairs_feed(Tail(toks), Append(buffer, t), out)

\* the windows (prev_token, token, next_token) in the order they are yielded
token_pairs(text) == token_pairs_feed(tokenize_search(text), << << >> >>, << >>)

clean_token(to_clean) ==
    IF startswith(to_clean, Quote)
    THEN IF endswith(to_clean, Quote)
         THEN Slice(to_clean, 1, Len(to_clean) - 1)
         ELSE Slice(to_clean, 1, Len(to_clean))
    ELSE strip(to_clean)

Component(name, value, raw, negated) ==
    [name |-> name, value |-> value, raw |-> raw, negated |-> negated]

\* the body of the for loop of get_components, from window k on
RECURSIVE components_loop(_, _, _, _)
components_loop(pairs, k, skip_token, components) ==
    IF k > Len(pairs) THEN components
    ELSE IF skip_token THEN components_loop(pairs, k + 1, FALSE, components)
    ELSE LET prev_token == pairs[k][1]
             token == pairs[k][2]
             next_token == pairs[k][3]
             negated == prev_token = Dash
             name == casefold(strip(Slice(token, 0, Len(token) - 1)))
         IN  IF token = Dash
             THEN components_loop(pairs, k + 1, FALSE, components)
             ELSE IF startswith(token, Quote)
             THEN components_loop(pairs, k + 1, FALSE,
                      Append(components,
                             Component(<< >>, clean_token(token), clean_token(token), negated)))
             ELSE IF endswith(token, ":") /\ name \in tags
             THEN components_loop(pairs, k + 1, TRUE,
                      Append(components,
                             Component(name, clean_token(next_token), token, negated)))
             ELSE components_loop(pairs, k + 1, FALSE,
                      Append(components, Component(<< >>, token, token, negated)))

get_components(text) == components_loop(token_pairs(text), 1, FALSE, << >>)

(***************************************************************************)
(* Candidates (db_game rows) and the collaborators' data.                  *)
(***************************************************************************)
\* a db_game row; runner and platform << >> and appid 0 stand for None
Game(id, name, installed, runner, appid, platform) ==
    [id |-> id, name |-> name, installed |-> installed, runner |-> runner,
     appid |-> appid, platform |-> platform]

Candidates ==
    { Game(1, <<"P", "o'", "r", "t", "a", "l">>, TRUE, <<"W", "i", "n", "e">>, 101, S_linux),
      Game(2, <<"H", "a", "l", "f", "-", "L", "i", "f", "e", " ", "2">>, FALSE, S_wine, 102, << >>),
      Game(3, <<"b", "a", "r", " ", "f", "o", "o", ":", " ", "i", "n", "s", "t", "a", "l", "l", "e", "d", ":">>,
           TRUE, << >>, 0, << >>),
      Game(4, <<"x", "-", "y">>, FALSE, S_linux, 104, << >>) }

CandidateIds == {c.id : c \in Candidates}

CandidateById(id) == CHOOSE c \in Candidates : c.id = id

\* the service bound to a GameSearch: None, or a service id
Services == {None, "steam"}

\* games.get_service_games(service_id): the app ids installed through it
get_service_games(service_id) == IF service_id = "steam" THEN {101, 104} ELSE {}

\* service.get_game_platforms(db_game)
get_game_platforms(svc, db_game) == IF db_game.id = 2 THEN {S_linux} ELSE {}

\* the category store: category name -> ids of the games in it
CategoryGames ==
    (S_dot_hidden :> {2}) @@ (S_favorite :> {1}) @@ (<<"a">> :> {1, 3}) @@ (S_yes :> {3})

\* lutris.database.categories.normalized_category_names
normalized_category_names(category) == {casefold(strip(category))}

\* lutris.database.categories.get_game_ids_for_categories
get_game_ids_for_categories(names) ==
    UNION {CategoryGames[n] : n \in names \cap DOMAIN CategoryGames}

\* lutris.database.categories.get_uncategorized_game_ids
get_uncategorized_game_ids == CandidateIds \ UNION {CategoryGames[n] : n \in DOMAIN CategoryGames}

(***************************************************************************)
(* Predicates: the closures the compiler builds, as data.  kind names the  *)
(* closure, frag/flag/ids are what it captured, neg is the negation lambda *)
(* of get_predicates wrapped around it.                                    *)
(***************************************************************************)
Pred(kind, frag, flag, ids) ==
    [kind |-> kind, frag |-> frag, flag |-> flag, ids |-> ids, neg |-> FALSE]

\* the negation lambda without its `not`
Negated_without_not(pred) == pred

\* `lambda *args, pred=predicate: not pred(*args)`
Negated(pred) == [pred EXCEPT !.neg = ~pred.neg]

\* GameSearch.get_candidate_text
get_candidate_text(candidate) == candidate.name

get_text_predicate(text) == Pred("match_text", casefold(strip_accents(text)), TRUE, {})

get_installed_predicate(installed) == Pred("match_installed", << >>, installed, {})

get_categorized_predicate(categorized) ==
    Pred("match_categorized", << >>, categorized, get_uncategorized_game_ids)

get_category_predicate(category, in_category) ==
    Pred("match_category", << >>, in_category,
         get_game_ids_for_categories(normalized_category_names(category)))

get_runner_predicate(runner_name) == Pred("match_runner", casefold(runner_name), TRUE, {})

get_platform_predicate(platform) == Pred("match_platform", casefold(platform), TRUE, {})

\* `lambda *args: True`, the predicate of the flag word maybe
always_true == Pred("always_true", << >>, TRUE, {})

\* the None that BaseSearch.get_part_predicate returns
NoPredicate == Pred("None", << >>, FALSE, {})

\* GameSearch.get_part_predicate; NoPredicate when it falls through to BaseSearch's
get_part_predicate(name, value) ==
    LET folded_value == casefold(value)
        is_flag == folded_value \in DOMAIN flag_texts
        flag == flag_texts[folded_value] = "True"
    IN  IF is_flag /\ flag_texts[folded_value] = None THEN always_true
        ELSE IF is_flag /\ name = S_installed THEN get_installed_predicate(flag)
        ELSE IF is_flag /\ name = S_hidden THEN get_category_predicate(S_dot_hidden, flag)
        ELSE IF is_flag /\ name = S_favorite THEN get_category_predicate(S_favorite, flag)
        ELSE IF is_flag /\ name = S_categorized THEN get_categorized_predicate(flag)
        ELSE IF name = S_category THEN get_category_predicate(strip(value), TRUE)
        ELSE IF name = S_runner THEN get_runner_predicate(strip(value))
        ELSE IF name = S_platform THEN get_platform_predicate(strip(value))
        ELSE NoPredicate

\* GameSearch._is_installed
is_installed(svc, db_game) ==
    IF svc # None
    THEN db_game.appid # 0 /\ db_game.appid \in get_service_games(svc)
    ELSE db_game.installed

\* calling a compiled predicate on a candidate; svc is self.service, which
\* match_installed and match_platform read when they are called
Call(pred, svc, c) ==
    LET verdict ==
            CASE pred.kind = "match_text" ->
                     IsSubstring(pred.frag, casefold(strip_accents(get_candidate_text(c))))
              [] pred.kind = "always_true" -> TRUE
              [] pred.kind = "match_installed" -> pred.flag = is_installed(svc, c)
              [] pred.kind = "match_categorized" -> (c.id \notin pred.ids) = pred.flag
              [] pred.kind = "match_category" -> (c.id \in pred.ids) = pred.flag
              [] pred.kind = "match_runner" ->
                     c.runner # << >> /\ casefold(c.runner) = pred.frag
              [] pred.kind = "match_platform" ->
                     IF c.platform # << >> THEN casefold(c.platform) = pred.frag
                     ELSE IF svc # None THEN pred.frag \in {casefold(p) : p \in get_game_platforms(svc, c)}
                     ELSE FALSE
              [] pred.kind = "external" -> c.id \in pred.ids
    IN  IF pred.neg THEN ~verdict ELSE verdict

\* the predicate of one component, as the loop body of get_predicates builds it
component_predicate(component) ==
    LET part == IF component.name # << >>
                THEN get_part_predicate(component.name, component.value)
                ELSE NoPredicate
        predicate == IF part = NoPredicate THEN get_text_predicate(component.raw) ELSE part
    IN  IF component.negated THEN Negated(predicate) ELSE predicate

\* the list get_predicates builds when the cache is empty
compile_predicates(text) ==
    IF text = << >> THEN << >>
    ELSE LET components == get_components(text)
         IN  [k \in 1..Len(components) |-> component_predicate(components[k])]

(***************************************************************************)
(* Calls to the collaborators: the category store (normalized_category_    *)
(* names, get_game_ids_for_categories, get_uncategorized_game_ids) and the *)
(* service's installed set (games.get_service_games).                      *)
(***************************************************************************)
\* the calls made to build one predicate: get_category_predicate makes two
\* calls to the category store, get_categorized_predicate one, the others none
build_lookups(pred) ==
    CASE pred.kind = "match_category" -> 2
      [] pred.kind = "match_categorized" -> 1
      [] OTHER -> 0

\* the calls made by the compile loop of get_predicates on this text
RECURSIVE compile_lookups_from(_, _)
compile_lookups_from(predicates, k) ==
    IF k > Len(predicates) THEN 0
    ELSE build_lookups(predicates[k]) + compile_lookups_from(predicates, k + 1)

compile_lookups(text) == compile_lookups_from(compile_predicates(text), 1)

\* the calls made when one predicate is called on a candidate: match_installed
\* reads games.get_service_games when a service is bound and the candidate
\* has an appid; the other closures read what they captured
call_lookups(pred, svc, c) ==
    IF pred.kind = "match_installed" /\ svc # None /\ c.appid # 0 THEN 1 ELSE 0

\* the calls made by the loop of matches, which stops at the first predicate
\* that refuses the candidate
RECURSIVE test_lookups_from(_, _, _, _)
test_lookups_from(predicates, k, svc, c) ==
    IF k > Len(predicates) THEN 0
    ELSE call_lookups(predicates[k], svc, c)
             + (IF Call(predicates[k], svc, c)
                THEN test_lookups_from(predicates, k + 1, svc, c)
                ELSE 0)

(***************************************************************************)
(* Search objects.  predicates is << >> while the cache is None and <<l>>  *)
(* once it holds the list l.  origin and added record how with_predicate   *)
(* made the object: the index of the search it copied and the predicate it *)
(* was given (origin 0: made by the constructor).                          *)
(***************************************************************************)
GameSearch(text) ==
    [text |-> text, predicates |-> << >>, origin |-> 0, added |-> NoPredicate]

\* `self.predicates is None`: get_predicates has to compile
must_compile(s) == s.predicates = << >>

\* what self.get_predicates() returns
get_predicates(s) ==
    IF s.predicates = << >> THEN compile_predicates(s.text) ELSE s.predicates[1]

\* self after get_predicates() has run
populated(s) == [s EXCEPT !.predicates = <<get_predicates(s)>>]

\* matches that answers true as soon as one predicate accepts the candidate
matches_any(s, svc, c) ==
    LET predicates == get_predicates(s)
    IN  \E k \in 1..Len(predicates) : Call(predicates[k], svc, c)

\* what self.matches(candidate) returns
matches(s, svc, c) ==
    LET predicates == get_predicates(s)
    IN  \A k \in 1..Len(predicates) : Call(predicates[k], svc, c)

\* with_predicate that appends to the list of self instead of to a copy
with_predicate_self_shared_list(s, predicate) ==
    [s EXCEPT !.predicates = <<Append(get_predicates(s), predicate)>>]

\* self after with_predicate: its cache is populated, and the list is copied
\* before the append
with_predicate_self(s, predicate) == populated(s)

\* with_predicate without its append
with_predicate_without_append(s, i, predicate) ==
    [text |-> s.text, predicates |-> <<get_predicates(s)>>,
     origin |-> i, added |-> predicate]

\* the new search with_predicate returns; i is the index of self
with_predicate(s, i, predicate) ==
    [text |-> s.text, predicates |-> <<Append(get_predicates(s), predicate)>>,
     origin |-> i, added |-> predicate]

\* the predicates callers hand to with_predicate
ExternalPredicates == {Pred("external", << >>, TRUE, ids) : ids \in {{1, 2}, {2, 3, 4}}}

(***************************************************************************)
(* Query texts.                                                            *)
(***************************************************************************)
InstalledHiddenPortal == Concat(<<S_installed, <<":">>, S_yes, <<" ", "-">>, S_hidden, <<":">>, S_yes, <<" ">>, S_portal>>)

HalfLife2 == <<"H", "a", "l", "f", "-", "L", "i", "f", "e", " ", "2">>

RunnerWineHalfLife2 == Concat(<<S_runner, <<":">>, S_wine, <<" ", Quote>>, HalfLife2, <<Quote>>>>)

FooBar == <<"f", "o", "o", ":", "b", "a", "r">>

InstalledBanana == Concat(<<S_installed, <<":">>, S_banana>>)

ScenarioTexts == {InstalledHiddenPortal, RunnerWineHalfLife2, FooBar, InstalledBanana}

\* the values tried after a tag label
TagValues ==
    { << >>, S_yes, <<"N", "o">>, S_true, S_false, S_maybe, <<"a">>, S_wine, S_linux, Dash, <<"a", "-", "b">>,
      <<"a", " ", "b">>, <<"a", ":", "b">>, <<Quote, "a", " ", "b", Quote>>, <<Quote, "a">> }

TagText(tag, value) == tag \o <<":">> \o value

TagTexts == UNION {{TagText(tag, v), Dash \o TagText(tag, v)} : tag \in tags, v \in TagValues}

QueryTexts == ScenarioTexts \cup TagTexts \cup Strings(Alphabet, MaxQueryLen)

\* the texts of the searches that with_predicate is called on: the scenarios,
\* the empty text, a word, a negated word, and category and installed terms
ComposeTexts ==
    ScenarioTexts \cup
        { << >>, <<"a">>, <<"-", "a">>, TagText(S_category, <<"a">>),
          Dash \o TagText(S_installed, S_yes), TagText(S_categorized, S_no) }

(***************************************************************************)
(* The operations.  result is what the last call returned.                 *)
(***************************************************************************)
Result(op, s, c, val) == [op |-> op, s |-> s, c |-> c, val |-> val]

\* what the last call did: cached, whether self.predicates was set when it
\* began; compiled, whether it ran the compile loop; compile_lookups and
\* test_lookups, the collaborator calls it made while compiling and while
\* testing the candidate
Calls(cached, compiled, n_compile, n_test) ==
    [cached |-> cached, compiled |-> compiled, compile_lookups |-> n_compile,
     test_lookups |-> n_test]

NoCalls == Calls(FALSE, FALSE, 0, 0)

\* the calls of get_predicates on s, followed by n_test calls while testing
CallsOf(s, n_test) ==
    Calls(~must_compile(s), must_compile(s),
          IF must_compile(s) THEN compile_lookups(s.text) ELSE 0, n_test)

\* tokenize_search(text) on the text of a search
Tokenize(i) ==
    /\ result' = Result("tokenize_search", i, 0, tokenize_search(searches[i].text))
    /\ calls' = NoCalls
    /\ UNCHANGED <<service, searches>>

GetComponents(i) ==
    /\ result' = Result("get_components", i, 0, get_components(searches[i].text))
    /\ calls' = NoCalls
    /\ UNCHANGED <<service, searches>>

GetPredicates(i) ==
    /\ searches' = [searches EXCEPT ![i] = populated(@)]
    /\ result' = Result("get_predicates", i, 0, get_predicates(searches[i]))
    /\ calls' = CallsOf(searches[i], 0)
    /\ UNCHANGED service

Matches(i, c) ==
    /\ searches' = [searches EXCEPT ![i] = populated(@)]
    /\ result' = Result("matches", i, c.id, matches(searches[i], service, c))
    /\ calls' = CallsOf(searches[i],
                        test_lookups_from(get_predicates(searches[i]), 1, service, c))
    /\ UNCHANGED service

WithPredicate(i, predicate) ==
    /\ Len(searches) < MaxSearches
    /\ searches' = Append([searches EXCEPT ![i] = with_predicate_self(@, predicate)],
                          with_predicate(searches[i], i, predicate))
    /\ result' = Result("with_predicate", Len(searches) + 1, 0, FALSE)
    /\ calls' = CallsOf(searches[i], 0)
    /\ UNCHANGED service

(***************************************************************************)
(* One GameSearch evaluated against the candidates.                        *)
(***************************************************************************)
Init ==
    /\ service \in Services
    /\ \E text \in QueryTexts : searches = <<GameSearch(text)>>
    /\ result = Result("init", 1, 0, FALSE)
    /\ calls = NoCalls

Next ==
    \/ Tokenize(1)
    \/ GetComponents(1)
    \/ GetPredicates(1)
    \/ \E c \in Candidates : Matches(1, c)

Spec == Init /\ [][Next]_vars

(***************************************************************************)
(* Searches composed with with_predicate.                                  *)
(***************************************************************************)
InitCompose ==
    /\ service \in Services
    /\ \E text \in ComposeTexts : searches = <<GameSearch(text)>>
    /\ result = Result("init", 1, 0, FALSE)
    /\ calls = NoCalls

NextCompose ==
    \/ \E i \in 1..Len(searches) : GetPredicates(i)
    \/ \E i \in 1..Len(searches), c \in Candidates : Matches(i, c)
    \/ \E i \in 1..Len(searches), predicate \in ExternalPredicates : WithPredicate(i, predicate)

SpecCompose == InitCompose /\ [][NextCompose]_vars

(***************************************************************************)
(* The tokenizer and the component extractor alone, on every text over     *)
(* Alphabet of at most MaxLen characters.                                  *)
(***************************************************************************)
InitTexts ==
    /\ service = None
    /\ \E text \in Strings(Alphabet, MaxLen) : searches = <<GameSearch(text)>>
    /\ result = Result("init", 1, 0, FALSE)
    /\ calls = NoCalls

NextTexts == Tokenize(1) \/ GetComponents(1)

SpecTexts == InitTexts /\ [][NextTexts]_vars

(***************************************************************************)
(* Properties.                                                             *)
(***************************************************************************)
\* the text of the search the last call was made on
CalledText == searches[result.s].text

\* the last call was matches() on the search the constructor made
MatchedRoot == result.op = "matches" /\ searches[result.s].origin = 0

\* the candidate the last matches() call tested
Tested == CandidateById(result.c)

\* the candidate's display text as match_text normalizes it
NormalName(c) == casefold(strip_accents(get_candidate_text(c)))

\* what a freshly constructed GameSearch(text, service) answers for c
FreshMatches(text, c) == matches(GameSearch(text), service, c)

Whitespace == {<< >>, <<" ">>, <<"\t">>, <<" ", " ">>}

\* C1: for the text `installed:yes -hidden:yes portal`, matches is true
\* exactly for the candidates that are installed, are not in the .hidden
\* category and whose name contains "portal" (case and accents ignored).
ClaimC1 ==
    (MatchedRoot /\ CalledText = InstalledHiddenPortal) =>
        (result.val <=> (/\ is_installed(service, Tested)
                         /\ Tested.id \notin CategoryGames[S_dot_hidden]
                         /\ IsSubstring(S_portal, NormalName(Tested))))

\* C2: for the text `runner:wine "Half-Life 2"`, matches is true for every
\* candidate whose runner is wine in any case and whose name contains the
\* phrase Half-Life 2, and the quoted span becomes one non-negated untagged
\* component whose value is the phrase without its quotes.
ClaimC2 ==
    /\ (MatchedRoot /\ CalledText = RunnerWineHalfLife2
            /\ casefold(Tested.runner) = S_wine
            /\ IsSubstring(casefold(HalfLife2), NormalName(Tested)))
        => result.val
    /\ (result.op = "get_components" /\ CalledText = RunnerWineHalfLife2)
        => \E k \in 1..Len(result.val) :
               result.val[k] = Component(<< >>, HalfLife2, HalfLife2, FALSE)

\* C3: the verdict of matches does not change when whitespace is put before
\* or after the query text.
ClaimC3 ==
    MatchedRoot =>
        \A w1 \in Whitespace, w2 \in Whitespace :
            FreshMatches(w1 \o CalledText \o w2, Tested) = result.val

\* C4: every token of tokenize_search that is not a quoted span and holds a
\* `-` is exactly the token `-`.
ClaimC4 ==
    result.op = "tokenize_search" =>
        \A k \in 1..Len(result.val) :
            LET t == result.val[k]
            IN  (~startswith(t, Quote) /\ \E j \in 1..Len(t) : t[j] = "-") => t = Dash

\* the value is one word or one quoted phrase: tokenize_search emits it as a
\* single token that is not the token `-` (or it is empty)
OneTerm(value) ==
    \/ value = << >>
    \/ tokenize_search(value) = <<value>> /\ value # Dash /\ ~isspace(value)

\* matches of `-tag:value` is the complement of matches of `tag:value`
Complement(tag, value) ==
    (MatchedRoot /\ CalledText = Dash \o TagText(tag, value)) =>
        (result.val <=> ~FreshMatches(TagText(tag, value), Tested))

\* C5 as stated: for every tag of GameSearch, every value and every
\* candidate, matches of `-tag:value` is the complement of matches of
\* `tag:value` (the value `-`, which is the negation marker, left aside).
ClaimC5 == \A tag \in tags, value \in TagValues \ {Dash} : Complement(tag, value)

\* C5 amended: for every tag of GameSearch, every value that is one word or
\* one quoted phrase, and every candidate, matches of `-tag:value` is the
\* complement of matches of `tag:value`.
TheoremC5 ==
    \A tag \in tags, value \in {v \in TagValues : OneTerm(v)} : Complement(tag, value)

\* matches of `-tag:value` was called and answered true, for a flag word,
\* for maybe's complement and for a value that falls back to text matching
WitnessC5 ==
    /\ MatchedRoot
    /\ \E tag \in tags, value \in {S_yes, <<"a">>} :
           /\ CalledText = Dash \o TagText(tag, value)
           /\ result.val
           /\ ~FreshMatches(TagText(tag, value), Tested)

\* C6: a search made by with_predicate(p) from s matches a candidate exactly
\* when s matches it and p accepts it, whether or not s had compiled its
\* predicates before, and for searches made from searches made so.
TheoremC6 ==
    \A n \in 1..Len(searches) :
        searches[n].origin # 0 =>
            \A c \in Candidates :
                matches(searches[n], service, c)
                    <=> (/\ matches(searches[searches[n].origin], service, c)
                         /\ Call(searches[n].added, service, c))

\* matches answered true on a search made by with_predicate from a search
\* made by with_predicate, and some candidate is refused by the added
\* predicate alone
WitnessC6 ==
    /\ result.op = "matches" /\ result.val
    /\ searches[result.s].origin # 0
    /\ searches[searches[result.s].origin].origin # 0
    /\ \E c \in Candidates :
           /\ matches(searches[searches[result.s].origin], service, c)
           /\ ~matches(searches[result.s], service, c)

\* C7 as stated: for the text `foo:bar`, foo being no tag, matches is true
\* exactly when the normalized name contains the contiguous text `foo:bar`.
ClaimC7 ==
    (MatchedRoot /\ CalledText = FooBar) =>
        (result.val <=> IsSubstring(FooBar, NormalName(Tested)))

\* C7 amended: for the text `foo:bar`, foo being no tag, matches is true
\* exactly when the normalized name contains `foo:` and contains `bar`, as
\* two independent substrings.
TheoremC7 ==
    (MatchedRoot /\ CalledText = FooBar) =>
        (result.val <=> (/\ IsSubstring(<<"f", "o", "o", ":">>, NormalName(Tested))
                         /\ IsSubstring(<<"b", "a", "r">>, NormalName(Tested))))

\* `foo:bar` matched a candidate whose name holds `bar` before `foo:`
WitnessC7 ==
    /\ MatchedRoot /\ CalledText = FooBar /\ result.val
    /\ ~IsSubstring(FooBar, NormalName(Tested))

\* C8: for a tri-state tag with a value that is no flag word, as in
\* `installed:banana`, matches is true exactly when the normalized name
\* contains the text `installed:banana`.
ClaimC8 ==
    (MatchedRoot /\ CalledText = InstalledBanana) =>
        (result.val <=> IsSubstring(InstalledBanana, NormalName(Tested)))

\* C9: the tokens of tokenize_search, concatenated in order, are the input
\* text, and none of them is empty.
TheoremC9 ==
    result.op = "tokenize_search" =>
        /\ Concat(result.val) = CalledText
        /\ \A k \in 1..Len(result.val) : Len(result.val[k]) > 0

\* a text with an unterminated quote after a word was tokenized into more
\* than one token
WitnessC9 ==
    /\ result.op = "tokenize_search"
    /\ Len(result.val) > 1
    /\ Cardinality({j \in 1..Len(CalledText) : CalledText[j] = Quote}) = 1
    /\ ~startswith(CalledText, Quote)

\* the tokens of the text that are not whitespace
Terms(text) == SelectSeq(tokenize_search(text), LAMBDA t : ~isspace(t))

\* the text up to, and without, its last token
WithoutLastToken(text) ==
    LET tokens == tokenize_search(text)
    IN  Concat(SubSeq(tokens, 1, Len(tokens) - 1))

\* C10: a `-` token yields no component of its own: when the last token of
\* the text is `-`, get_components returns what it returns without that
\* token, and matches answers what it answers without it.
ClaimC10 ==
    (/\ result.op \in {"get_components", "matches"}
     /\ searches[result.s].origin = 0
     /\ Terms(CalledText) # << >>
     /\ tokenize_search(CalledText)[Len(tokenize_search(CalledText))] = Dash) =>
        /\ result.op = "get_components" =>
               result.val = get_components(WithoutLastToken(CalledText))
        /\ result.op = "matches" =>
               result.val = FreshMatches(WithoutLastToken(CalledText), Tested)

\* the one-word values tried as literal names, flag words among them
LiteralValues == {S_yes, <<"N", "o">>, S_true, S_false, S_maybe, <<"a">>, S_wine, S_linux}

\* C11: for the tags category and runner the value is a literal name, flag
\* words included: `category:v` matches exactly the games whose id is in the
\* id set resolved for category v, and `runner:v` exactly the games whose
\* case-folded runner is the case-folded v.
ClaimC11 ==
    MatchedRoot =>
        \A v \in LiteralValues :
            /\ CalledText = TagText(S_category, v) =>
                   (result.val <=>
                        Tested.id \in get_game_ids_for_categories(normalized_category_names(v)))
            /\ CalledText = TagText(S_runner, v) =>
                   (result.val <=> casefold(Tested.runner) = casefold(v))

\* C12: a matches call on a search whose predicates were compiled before it
\* began makes no call to the category store or to the service's installed
\* set, neither to compile nor while it tests the candidate.
ClaimC12 ==
    (result.op = "matches" /\ calls.cached) =>
        /\ calls.compile_lookups = 0
        /\ calls.test_lookups = 0

\* one step leaves every populated cache as it was: the list of search i is
\* unchanged, a call on search i does not compile again, and the search that
\* with_predicate was called on answers every candidate as before
CacheKept ==
    \A i \in 1..Len(searches) :
        searches[i].predicates # << >> =>
            /\ searches'[i].predicates = searches[i].predicates
            /\ (result'.s = i /\ result'.op \in {"get_predicates", "matches"})
                   => ~calls'.compiled
            /\ (result'.op = "with_predicate" /\ searches'[result'.s].origin = i) =>
                   /\ ~calls'.compiled
                   /\ \A c \in Candidates :
                          matches(searches'[i], service', c) = matches(searches[i], service, c)

\* C13: once the predicate cache of a search is populated, no matches,
\* get_predicates or with_predicate call changes it or compiles it again,
\* and with_predicate leaves the verdicts of the search it was called on as
\* they were; it appends to the new search's list only.
TheoremC13 == [][CacheKept]_vars

\* matches was called on a search with a populated, non-empty list after
\* with_predicate had made another search from it, whose list is one longer
WitnessC13 ==
    /\ result.op = "matches" /\ calls.cached /\ ~calls.compiled
    /\ searches[result.s].predicates # << >>
    /\ Len(searches[result.s].predicates[1]) > 0
    /\ \E n \in 1..Len(searches) :
           /\ searches[n].origin = result.s
           /\ Len(searches[n].predicates[1]) = Len(searches[result.s].predicates[1]) + 1

====
